---- MODULE Spec2Model ----
(***************************************************************************)
(* DocxCommentInjector (src/main.py): the render engine that linearizes a  *)
(* DOCX body into annotated Markdown.  The document is not a variable: the *)
(* traversal is driven by the stream of nodes the renderer meets, so every *)
(* behaviour of a specification is the rendering of one document and the  *)
(* set of behaviours is the set of documents within the bounds.            *)
(*                                                                         *)
(* Strings are sequences of characters; a character is an atomic string    *)
(* ("a", " ", "TAB", "NL", "{+", ...).  A RenderOut buffer holds tokens    *)
(* [m, c]: c is the character, m tells that the token is an inline marker  *)
(* appended by that buffer itself (as opposed to text or literal content). *)
(***************************************************************************)
EXTENDS Integers, Sequences, FiniteSets, TLC

VARIABLES
    comments,               \* RenderState.comments: id -> Comment
    numbering,              \* RenderState.numbering: NumberingInfo
    styles,                 \* RenderState.styles.heading_levels
    active_comment_ranges,  \* RenderState.active_comment_ranges: id -> text_parts
    collected_comments,     \* RenderState.collected_comments
    emitted_comment_ids,    \* RenderState.emitted_comment_ids
    list_counters,          \* RenderState.list_counters: <<num_id, ilvl>> -> int
    pc,                     \* where the traversal stands
    stack,                  \* the RenderOut buffers of the open _render_node calls
    frames,                 \* the revision kind ("ins"/"del") of each inner buffer
    rows,                   \* _render_table: rows -> cells -> cell_parts
    output_lines,           \* linearize_docx: output_lines
    returned,               \* the value the last API call returned
    stream,                 \* history: every fragment forwarded to the ranges
    startAt,                \* history: Len(stream) when an id's range was opened
    marker_calls,           \* history: get_list_marker calls per <<num_id, ilvl>>
    last,                   \* history: the last operation and its arguments
    steps,                  \* number of nodes rendered so far
    nodes,                  \* history: the nodes of this run, once its entry is recorded
    runs                    \* history: the completed runs, [nodes, out]

vars == <<comments, numbering, styles, active_comment_ranges, collected_comments,
          emitted_comment_ids, list_counters, pc, stack, frames, rows,
          output_lines, returned, stream, startAt, marker_calls, last, steps,
          nodes, runs>>

\* ------------------------------------------------------------------ bounds
MaxSteps     == 6   \* nodes of a document (Spec)
MaxBufCalls  == 4   \* calls on one RenderOut (SpecBuf)
MaxListCalls == 4   \* calls of get_list_marker (SpecList)
MaxTblSteps  == 9   \* nodes of a table document (SpecTable)
MaxRevSteps  == 5   \* nodes of a paragraph with revisions (SpecRev)
MaxNest      == 2   \* nesting depth of ins/del
MaxStyles    == 2   \* style elements of a styles.xml (SpecStyles)
MaxParaSteps == 6   \* nodes of a document of styled paragraphs (SpecPara)
MaxLoadSteps == 5   \* nodes of a document after its parts are read (SpecLoad)
MaxRunSteps  == 4   \* nodes of a document converted twice (SpecTwice)
MaxCellSteps == 9   \* nodes of a document of tables and paragraphs with a comment (SpecCells)
MaxNestedSteps == 11  \* nodes of a document of nested list paragraphs (SpecNested)

\* ------------------------------------------------------------ characters
Whitespace == {" ", "TAB", "NL"}
MarkerStrs == {"==", "**", "*"}

Mk(c)     == [m |-> TRUE,  c |-> c]
Plain(s)  == [k \in 1..Len(s) |-> [m |-> FALSE, c |-> s[k]]]
Str(toks) == [k \in 1..Len(toks) |-> toks[k].c]

RECURSIVE Flatten(_)
Flatten(ss) == IF ss = <<>> THEN <<>> ELSE Head(ss) \o Flatten(Tail(ss))

RECURSIVE JoinWith(_, _)
JoinWith(ss, sep) ==
    IF ss = <<>> THEN <<>>
    ELSE IF Len(ss) = 1 THEN ss[1]
    ELSE ss[1] \o sep \o JoinWith(Tail(ss), sep)

\* str.rstrip() on a token string, rstrip()/lstrip()/strip() on a character string
RECURSIVE RStripToks(_)
RStripToks(t) ==
    IF t # <<>> /\ t[Len(t)].c \in Whitespace
    THEN RStripToks(SubSeq(t, 1, Len(t) - 1)) ELSE t

RECURSIVE RStripStr(_)
RStripStr(s) ==
    IF s # <<>> /\ s[Len(s)] \in Whitespace
    THEN RStripStr(SubSeq(s, 1, Len(s) - 1)) ELSE s

RECURSIVE LStripStr(_)
LStripStr(s) ==
    IF s # <<>> /\ s[1] \in Whitespace THEN LStripStr(Tail(s)) ELSE s

StripStr(s) == LStripStr(RStripStr(s))

\* " ".join(s.split()): whitespace runs become one space, none at the ends
RECURSIVE CollapseFrom(_, _, _)
CollapseFrom(s, k, acc) ==
    IF k > Len(s) THEN acc
    ELSE CollapseFrom(s, k + 1,
            IF s[k] \in Whitespace THEN acc
            ELSE IF k > 1 /\ s[k - 1] \in Whitespace /\ acc # <<>>
                 THEN acc \o <<" ", s[k]>>
                 ELSE Append(acc, s[k]))

CollapseWs(s) == CollapseFrom(s, 1, <<>>)

Normalize(s) == CollapseWs(StripStr(s))

\* ------------------------------------------------------ RunContext, RenderOut
RunContext(h, b, i) == [highlight |-> h, bold |-> b, italic |-> i]
NoFormat == RunContext(FALSE, FALSE, FALSE)
AllContexts == [highlight : BOOLEAN, bold : BOOLEAN, italic : BOOLEAN]

NewOut == [parts |-> <<>>, highlight_open |-> FALSE, bold_open |-> FALSE,
           italic_open |-> FALSE]

AnyOpen(o) == o.highlight_open \/ o.bold_open \/ o.italic_open

\* A marker is appended and its flag flipped.
Toggle(o, flag, marker, value) ==
    [o EXCEPT !.parts = Append(@, Mk(marker)), ![flag] = value]

\* mutant: the highlight marker is left open
CloseAllFormats_keepHighlight(o) ==
    LET o1 == IF o.italic_open THEN Toggle(o, "italic_open", "*", FALSE) ELSE o
        o2 == IF o1.bold_open THEN Toggle(o1, "bold_open", "**", FALSE) ELSE o1
    IN o2

CloseAllFormats(o) ==
    LET o1 == IF o.italic_open THEN Toggle(o, "italic_open", "*", FALSE) ELSE o
        o2 == IF o1.bold_open THEN Toggle(o1, "bold_open", "**", FALSE) ELSE o1
        o3 == IF o2.highlight_open THEN Toggle(o2, "highlight_open", "==", FALSE) ELSE o2
    IN o3

\* One of the three if/elif pairs of append_text.
Transition(o, want, flag, marker) ==
    IF want /\ ~o[flag] THEN Toggle(o, flag, marker, TRUE)
    ELSE IF ~want /\ o[flag] THEN Toggle(o, flag, marker, FALSE)
    ELSE o

\* RenderOut.append_text, the buffer's part (the ranges' part is in the actions)
AppendTextOut(o, text, ctx) ==
    IF text = <<>> THEN o
    ELSE LET o1 == Transition(o, ctx.highlight, "highlight_open", "==")
             o2 == Transition(o1, ctx.bold, "bold_open", "**")
             o3 == Transition(o2, ctx.italic, "italic_open", "*")
         IN [o3 EXCEPT !.parts = @ \o Plain(text)]

\* mutant: the literal is appended with the markers left open
AppendLiteralOut_noClose(o, literal) ==
    IF literal # <<>> THEN [o EXCEPT !.parts = @ \o Plain(literal)] ELSE o

\* RenderOut.append_literal, the buffer's part
AppendLiteralOut(o, literal) ==
    LET c == CloseAllFormats(o)
    IN IF literal # <<>> THEN [c EXCEPT !.parts = @ \o Plain(literal)] ELSE c

\* RenderOut.finish: the buffer after the call; its parts are the returned string
FinishOut(o) == CloseAllFormats(o)

\* mutant: only one of the active ranges receives the text
AppendToActiveRanges_one(acr, text) ==
    [id \in DOMAIN acr |->
        IF id = (CHOOSE x \in DOMAIN acr : TRUE) THEN Append(acr[id], text) ELSE acr[id]]

\* RenderState.append_to_active_ranges
AppendToActiveRanges(acr, text) ==
    [id \in DOMAIN acr |-> Append(acr[id], text)]

RECURSIVE AppendAllToRanges(_, _)
AppendAllToRanges(acr, texts) ==
    IF texts = <<>> THEN acr
    ELSE AppendAllToRanges(AppendToActiveRanges(acr, Head(texts)), Tail(texts))

\* ------------------------------------------------------------------ inputs
\* Comment ids met in the body; a registry holds some of them (_parse_comments).
Ids == {"1", "2"}

Comment(cid, author, date, text) ==
    [comment_id |-> cid, author |-> author, date |-> date, text |-> text]

\* An absent author or date (None) is "": the renderer only tests their truth.
RegBoth == ("1" :> Comment("1", "Alice", "2024-01-02", <<"f">>))
        @@ ("2" :> Comment("2", "", "", <<>>))
RegOne  == ("1" :> Comment("1", "Alice", "2024-01-02", <<"f">>))
Registries == {RegBoth, RegOne}

NumberingLevel(fmt, txt, start) == [num_fmt |-> fmt, lvl_text |-> txt, start |-> start]

\* mutant: every format but bullet is counted
OrderedFormats_withNone ==
    {"decimal", "upperLetter", "lowerLetter", "upperRoman", "lowerRoman", "none"}

OrderedFormats == {"decimal", "upperLetter", "lowerLetter", "upperRoman", "lowerRoman"}

\* A numbering part: two list instances on one abstract definition, one whose
\* abstract definition is missing, one whose reference is empty.
NumberingA ==
    [abstract_nums |->
        ("A1" :> ((0 :> NumberingLevel("decimal", "%1.", 1))
               @@ (1 :> NumberingLevel("bullet", "o", 1))
               @@ (2 :> NumberingLevel("upperRoman", "%3)", 3))
               @@ (3 :> NumberingLevel("none", "", 1)))),
     num_to_abstract |-> ("L1" :> "A1") @@ ("L2" :> "A1") @@ ("L3" :> "AX") @@ ("L4" :> "")]

NumIds == {"L1", "L2", "L3", "L4", "L9"}
Depths == 0..3

\* styleId -> heading level (StyleInfo.heading_levels)
StylesA == ("H2" :> 2) @@ ("Title" :> 1)

ParagraphProps(style_id, num_id, ilvl) ==
    [style_id |-> style_id, num_id |-> num_id, ilvl |-> ilvl]

\* The properties a paragraph may carry (None is "").
PropsSet == {ParagraphProps("", "", 0), ParagraphProps("H2", "L1", 0),
             ParagraphProps("", "L1", 0), ParagraphProps("Normal", "L9", 1)}

\* ------------------------------------------------------ NumberingInfo, lists
\* NumberingInfo.get_level: <<>> is None, <<level>> a level
GetLevel(num, num_id, ilvl) ==
    IF num_id \notin DOMAIN num.num_to_abstract THEN <<>>
    ELSE LET abstract_id == num.num_to_abstract[num_id]
         IN IF abstract_id = "" THEN <<>>
            ELSE IF abstract_id \notin DOMAIN num.abstract_nums THEN <<>>
            ELSE IF ilvl \notin DOMAIN num.abstract_nums[abstract_id] THEN <<>>
            ELSE <<num.abstract_nums[abstract_id][ilvl]>>

DigitChars == <<"0", "1", "2", "3", "4", "5", "6", "7", "8", "9">>

\* str(n) of an int
RECURSIVE DecimalNat(_)
DecimalNat(n) ==
    IF n < 10 THEN <<DigitChars[n + 1]>>
    ELSE Append(DecimalNat(n \div 10), DigitChars[(n % 10) + 1])

Decimal(n) == IF n < 0 THEN <<"-">> \o DecimalNat(-n) ELSE DecimalNat(n)

\* "  " * ilvl
RECURSIVE Indent(_)
Indent(ilvl) == IF ilvl <= 0 THEN <<>> ELSE <<" ", " ">> \o Indent(ilvl - 1)

\* mutant: the counter is stored back unchanged
NextCount_same(count) == count

\* "count + 1"
NextCount(count) == count + 1

\* RenderState.reset_list_counter: the counters after the call
ResetListCounter(num, counters, num_id, ilvl) ==
    LET level == GetLevel(num, num_id, ilvl)
        key == <<num_id, ilvl>>
    IN IF level = <<>> THEN counters
       ELSE [k \in DOMAIN counters \cup {key} |->
                IF k = key THEN level[1].start ELSE counters[k]]

\* mutant: an ordered level that advances resets the level below it
GetListMarker_resetDeeper(num, counters, num_id, ilvl) ==
    LET level == GetLevel(num, num_id, ilvl)
        key == <<num_id, ilvl>>
    IN IF level = <<>> THEN [marker |-> <<"-", " ">>, counters |-> counters]
       ELSE IF level[1].num_fmt \in OrderedFormats
            THEN LET count == IF key \in DOMAIN counters THEN counters[key]
                              ELSE level[1].start
                     next == [k \in DOMAIN counters \cup {key} |->
                                IF k = key THEN count + 1 ELSE counters[k]]
                 IN [marker |-> Indent(ilvl) \o Decimal(count) \o <<".", " ">>,
                     counters |-> ResetListCounter(num, next, num_id, ilvl + 1)]
       ELSE [marker |-> Indent(ilvl) \o <<"-", " ">>, counters |-> counters]

\* RenderState.get_list_marker: the marker returned and the counters after it
GetListMarker(num, counters, num_id, ilvl) ==
    LET level == GetLevel(num, num_id, ilvl)
        key == <<num_id, ilvl>>
    IN IF level = <<>> THEN [marker |-> <<"-", " ">>, counters |-> counters]
       ELSE IF level[1].num_fmt = "bullet"
            THEN [marker |-> Indent(ilvl) \o <<"-", " ">>, counters |-> counters]
       ELSE IF level[1].num_fmt \in OrderedFormats
            THEN LET count == IF key \in DOMAIN counters THEN counters[key]
                              ELSE level[1].start
                 IN [marker |-> Indent(ilvl) \o Decimal(count) \o <<".", " ">>,
                     counters |-> [k \in DOMAIN counters \cup {key} |->
                                     IF k = key THEN NextCount(count) ELSE counters[k]]]
       ELSE [marker |-> Indent(ilvl) \o <<"-", " ">>, counters |-> counters]

\* mutant: no style is a heading
GetHeadingLevel_none(sty, style_id) == 0

\* RenderState.get_heading_level: 0 is None
GetHeadingLevel(sty, style_id) ==
    IF style_id = "" THEN 0
    ELSE IF style_id \in DOMAIN sty THEN sty[style_id] ELSE 0

\* ---------------------------------------------------------------- comments
CollectedComment(cid, author, date, original, text) ==
    [comment_id |-> cid, author |-> author, date |-> date,
     original_text |-> original, comment_text |-> text]

\* An item of output_lines: a content line, a table chunk, a blank line or an
\* annotation block (with the lines _format_comment_block gives it).
Item(t, id, text, lines) == [t |-> t, id |-> id, text |-> text, lines |-> lines]
Blank == Item("blank", "", <<>>, <<>>)

\* f"**[<PIZHU> #{c.comment_id}]**": "PIZHU" stands for the two CJK characters
\* U+6279 U+6CE8 of the source; an id, an author and a date are one character
BlockHeader(cid) == <<"**[", "PIZHU", " ", "#", cid, "]**">>

\* _format_comment_block: the meta parts, and the original and comment lines
FormatCommentBlock(c) ==
    LET meta == <<[k |-> "meta",
                   v |-> <<BlockHeader(c.comment_id)>>
                         \o (IF c.author # "" THEN <<<<c.author>>>> ELSE <<>>)
                         \o (IF c.date # "" THEN <<<<"(", c.date, ")">>>> ELSE <<>>)]>>
        orig == IF c.original_text # <<>>
                THEN <<[k |-> "original", v |-> c.original_text]>> ELSE <<>>
        text == IF c.comment_text # <<>>
                THEN <<[k |-> "comment", v |-> c.comment_text]>> ELSE <<>>
    IN Item("block", c.comment_id, <<>>, meta \o orig \o text)

\* mutant: only the first comment of the queue gets a block
CommentBlocks_first(cs) ==
    IF cs = <<>> THEN <<>> ELSE <<Blank, FormatCommentBlock(Head(cs))>>

\* The loops that append a blank line and a block per comment.
RECURSIVE CommentBlocks(_)
CommentBlocks(cs) ==
    IF cs = <<>> THEN <<>>
    ELSE <<Blank, FormatCommentBlock(Head(cs))>> \o CommentBlocks(Tail(cs))

\* ------------------------------------------- RenderState: comment operations
\* mutant: a range-start always installs an empty range
StartCommentRange_reset(acr, cid) ==
    [id \in DOMAIN acr \cup {cid} |-> IF id = cid THEN <<>> ELSE acr[id]]

\* RenderState.start_comment_range
StartCommentRange(acr, cid) ==
    IF cid \in DOMAIN acr THEN acr
    ELSE [id \in DOMAIN acr \cup {cid} |-> IF id \in DOMAIN acr THEN acr[id] ELSE <<>>]

\* mutant: the range stays active
RemoveRange_keep(acr, cid) == acr

\* dict.pop(cid)
RemoveRange(acr, cid) == [id \in DOMAIN acr \ {cid} |-> acr[id]]

\* mutant: a range-end emits a registered comment again
ShouldCollect_noDedup(reg, emitted, cid) == cid \in DOMAIN reg

\* "if comment and cid not in self.emitted_comment_ids"
ShouldCollect(reg, emitted, cid) == cid \in DOMAIN reg /\ cid \notin emitted

\* "".join(cr.text_parts).strip(), then " ".join(original.split())
OriginalOf(text_parts) == Normalize(Flatten(text_parts))

\* RenderState.end_comment_range: the three collections after the call
EndCommentRange(acr, coll, emitted, reg, cid) ==
    IF cid \notin DOMAIN acr
    THEN [acr |-> acr, coll |-> coll, emitted |-> emitted]
    ELSE IF ShouldCollect(reg, emitted, cid)
         THEN [acr |-> RemoveRange(acr, cid),
               coll |-> Append(coll, CollectedComment(cid, reg[cid].author, reg[cid].date,
                                                     OriginalOf(acr[cid]), reg[cid].text)),
               emitted |-> emitted \cup {cid}]
         ELSE [acr |-> RemoveRange(acr, cid), coll |-> coll, emitted |-> emitted]

\* mutant: the reference does not look at the emitted set
HandleCommentReference_again(acr, coll, emitted, reg, cid) ==
    IF cid \in DOMAIN acr THEN [acr |-> acr, coll |-> coll, emitted |-> emitted]
    ELSE IF cid \in DOMAIN reg
         THEN [acr |-> acr,
               coll |-> Append(coll, CollectedComment(cid, reg[cid].author, reg[cid].date,
                                                     <<>>, reg[cid].text)),
               emitted |-> emitted \cup {cid}]
         ELSE [acr |-> acr, coll |-> coll, emitted |-> emitted]

\* mutant: the reference does not look at the active ranges
HandleCommentReference_ignoreActive(acr, coll, emitted, reg, cid) ==
    IF cid \in emitted THEN [acr |-> acr, coll |-> coll, emitted |-> emitted]
    ELSE IF cid \in DOMAIN reg
         THEN [acr |-> acr,
               coll |-> Append(coll, CollectedComment(cid, reg[cid].author, reg[cid].date,
                                                     <<>>, reg[cid].text)),
               emitted |-> emitted \cup {cid}]
         ELSE [acr |-> acr, coll |-> coll, emitted |-> emitted]

\* RenderState.handle_comment_reference: the three collections after the call
HandleCommentReference(acr, coll, emitted, reg, cid) ==
    IF cid \in emitted THEN [acr |-> acr, coll |-> coll, emitted |-> emitted]
    ELSE IF cid \in DOMAIN acr THEN [acr |-> acr, coll |-> coll, emitted |-> emitted]
    ELSE IF cid \in DOMAIN reg
         THEN [acr |-> acr,
               coll |-> Append(coll, CollectedComment(cid, reg[cid].author, reg[cid].date,
                                                     <<>>, reg[cid].text)),
               emitted |-> emitted \cup {cid}]
         ELSE [acr |-> acr, coll |-> coll, emitted |-> emitted]

\* ------------------------------------------------------- paragraph assembly
RECURSIVE Hashes(_)
Hashes(n) == IF n <= 0 THEN <<>> ELSE <<"#">> \o Hashes(n - 1)

\* mutant: the empty paragraph is not skipped
RenderParagraphLines_noSkip(sty, num, counters, props, content, cmts) ==
    LET heading_level == GetHeadingLevel(sty, props.style_id)
        res == GetListMarker(num, counters, props.num_id, props.ilvl)
    IN IF heading_level # 0
       THEN [lines |-> <<Item("line", "", Plain(Hashes(heading_level) \o <<" ">>) \o content, <<>>)>>
                         \o CommentBlocks(cmts),
             counters |-> counters, listed |-> FALSE]
       ELSE IF props.num_id # ""
            THEN [lines |-> <<Item("line", "", Plain(res.marker) \o content, <<>>)>>
                              \o CommentBlocks(cmts),
                  counters |-> res.counters, listed |-> TRUE]
       ELSE [lines |-> <<Item("line", "", content, <<>>)>> \o CommentBlocks(cmts),
             counters |-> counters, listed |-> FALSE]

\* _render_paragraph after the content is rendered and the comments popped:
\* the lines returned, the list counters after it, and whether a marker was asked
RenderParagraphLines(sty, num, counters, props, content, cmts) ==
    LET heading_level == GetHeadingLevel(sty, props.style_id)
        res == GetListMarker(num, counters, props.num_id, props.ilvl)
    IN IF content = <<>> /\ cmts = <<>>
       THEN [lines |-> <<>>, counters |-> counters, listed |-> FALSE]
       ELSE IF heading_level # 0 /\ content # <<>>
            THEN [lines |-> <<Item("line", "", Plain(Hashes(heading_level) \o <<" ">>) \o content, <<>>)>>
                              \o CommentBlocks(cmts),
                  counters |-> counters, listed |-> FALSE]
       ELSE IF props.num_id # "" /\ content # <<>>
            THEN [lines |-> <<Item("line", "", Plain(res.marker) \o content, <<>>)>>
                              \o CommentBlocks(cmts),
                  counters |-> res.counters, listed |-> TRUE]
       ELSE IF content # <<>>
            THEN [lines |-> <<Item("line", "", content, <<>>)>> \o CommentBlocks(cmts),
                  counters |-> counters, listed |-> FALSE]
       ELSE [lines |-> CommentBlocks(cmts), counters |-> counters, listed |-> FALSE]

\* ---------------------------------------------------------- table flattening
MaxOf(S) == IF S = {} THEN 0 ELSE CHOOSE x \in S : \A y \in S : y <= x

\* row_cells of each row: " ".join(cell_parts).strip() per cell
RowCells(rws) ==
    [r \in 1..Len(rws) |-> [c \in 1..Len(rws[r]) |-> StripStr(JoinWith(rws[r][c], <<" ">>))]]

\* mutant: the column count of the first row
MaxCols_first(cells) == IF cells = <<>> THEN 0 ELSE Len(cells[1])

\* max(len(r) for r in rows)
MaxCols(cells) == MaxOf({Len(cells[r]) : r \in 1..Len(cells)})

\* "while len(row) < max_cols: row.append('')"
PadRow(row, max_cols) ==
    [c \in 1..(IF Len(row) < max_cols THEN max_cols ELSE Len(row)) |->
        IF c <= Len(row) THEN row[c] ELSE <<>>]

\* "| " + " | ".join(row) + " |" + "\n"
RowLine(row) == <<"|", " ">> \o JoinWith(row, <<" ", "|", " ">>) \o <<" ", "|">> \o <<"NL">>

\* "if i == 0" (rows are numbered from 1 here)
SepAfter(i) == i = 1

\* The literals _render_table appends for the rows from the i-th on.
RECURSIVE RowLiterals(_, _, _)
RowLiterals(cells, i, max_cols) ==
    IF i > Len(cells) THEN <<>>
    ELSE <<RowLine(PadRow(cells[i], max_cols))>>
         \o (IF SepAfter(i) THEN <<RowLine([c \in 1..max_cols |-> <<"-", "-", "-">>])>> ELSE <<>>)
         \o RowLiterals(cells, i + 1, max_cols)

\* The literals _render_table appends, in order.
TableLiterals(cells) ==
    IF cells = <<>> \/ MaxCols(cells) = 0 THEN <<>>
    ELSE RowLiterals(cells, 1, MaxCols(cells))

RECURSIVE AppendLiterals(_, _)
AppendLiterals(o, lits) ==
    IF lits = <<>> THEN o ELSE AppendLiterals(AppendLiteralOut(o, Head(lits)), Tail(lits))

\* ------------------------------------------------------------------ actions
Top == stack[Len(stack)]
SetTop(o) == [stack EXCEPT ![Len(stack)] = o]
InPara == pc \in {"para", "cell"}
Op(op, id, n, flag) == [op |-> op, id |-> id, n |-> n, flag |-> flag]

inputs == <<comments, numbering, styles>>

\* history: one more get_list_marker call for the key
CountCall(calls, key) ==
    [k \in DOMAIN calls \cup {key} |->
        IF k \in DOMAIN calls THEN calls[k] + (IF k = key THEN 1 ELSE 0) ELSE 1]

\* history: the node is added to the recorded run, if the run's entry was
\* recorded
Record(node) ==
    /\ nodes' = IF nodes = <<>> THEN nodes ELSE Append(nodes, node)
    /\ UNCHANGED runs

\* _render_node, commentRangeStart (510-515)
CommentRangeStart(cid) ==
    /\ InPara
    /\ active_comment_ranges' = StartCommentRange(active_comment_ranges, cid)
    /\ startAt' = IF cid \in DOMAIN active_comment_ranges THEN startAt
                  ELSE [startAt EXCEPT ![cid] = Len(stream)]
    /\ last' = Op("start", cid, 0, cid \in DOMAIN active_comment_ranges)
    /\ steps' = steps + 1
    /\ Record(<<"commentRangeStart", cid>>)
    /\ UNCHANGED <<inputs, marker_calls, collected_comments, emitted_comment_ids, list_counters, pc,
                   stack, frames, rows, output_lines, returned, stream>>

\* _render_node, commentRangeEnd (517-522)
CommentRangeEnd(cid) ==
    /\ InPara
    /\ LET r == EndCommentRange(active_comment_ranges, collected_comments,
                                emitted_comment_ids, comments, cid)
       IN /\ active_comment_ranges' = r.acr
          /\ collected_comments' = r.coll
          /\ emitted_comment_ids' = r.emitted
    /\ last' = Op("end", cid, 0, cid \in DOMAIN active_comment_ranges)
    /\ steps' = steps + 1
    /\ Record(<<"commentRangeEnd", cid>>)
    /\ UNCHANGED <<inputs, marker_calls, list_counters, pc, stack, frames, rows, output_lines,
                   returned, stream, startAt>>

\* _render_node, a run's commentReference child (557-561)
CommentReference(cid) ==
    /\ InPara
    /\ LET r == HandleCommentReference(active_comment_ranges, collected_comments,
                                       emitted_comment_ids, comments, cid)
       IN /\ active_comment_ranges' = r.acr
          /\ collected_comments' = r.coll
          /\ emitted_comment_ids' = r.emitted
    /\ last' = Op("ref", cid, 0, cid \in DOMAIN active_comment_ranges)
    /\ steps' = steps + 1
    /\ Record(<<"commentReference", cid>>)
    /\ UNCHANGED <<inputs, marker_calls, list_counters, pc, stack, frames, rows, output_lines,
                   returned, stream, startAt>>

\* RenderOut.append_text, called for a run's t/delText/hyphen leaf (563-576)
\* with the run's merged context, or directly on a buffer
EmitText(text, ctx) ==
    /\ InPara \/ pc = "buf"
    /\ stack' = SetTop(AppendTextOut(Top, text, ctx))
    /\ active_comment_ranges' = IF text = <<>> THEN active_comment_ranges
                                ELSE AppendToActiveRanges(active_comment_ranges, text)
    /\ stream' = IF text = <<>> THEN stream ELSE Append(stream, text)
    /\ last' = Op("text", "", Len(text), AnyOpen(Top))
    /\ steps' = steps + 1
    /\ Record(<<"t", text, ctx>>)
    /\ UNCHANGED <<inputs, marker_calls, collected_comments, emitted_comment_ids, list_counters, pc,
                   frames, rows, output_lines, returned, startAt>>

\* RenderOut.append_literal, called for a run's tab/br/cr leaf (566-571) or
\* directly on a buffer
EmitLiteral(literal) ==
    /\ InPara \/ pc = "buf"
    /\ stack' = SetTop(AppendLiteralOut(Top, literal))
    /\ active_comment_ranges' = IF literal = <<>> THEN active_comment_ranges
                                ELSE AppendToActiveRanges(active_comment_ranges, literal)
    /\ stream' = IF literal = <<>> THEN stream ELSE Append(stream, literal)
    /\ last' = Op("literal", "", Len(literal), AnyOpen(Top))
    /\ steps' = steps + 1
    /\ Record(<<"literal", literal>>)
    /\ UNCHANGED <<inputs, marker_calls, collected_comments, emitted_comment_ids, list_counters, pc,
                   frames, rows, output_lines, returned, startAt>>

\* RenderOut.finish on a buffer of its own
BufFinish ==
    /\ pc = "buf"
    /\ stack' = SetTop(FinishOut(Top))
    /\ returned' = FinishOut(Top).parts
    /\ pc' = "finished"
    /\ last' = Op("finish", "", 0, AnyOpen(Top))
    /\ steps' = steps + 1
    /\ Record(<<"finish">>)
    /\ UNCHANGED <<inputs, marker_calls, active_comment_ranges, collected_comments, emitted_comment_ids,
                   list_counters, frames, rows, output_lines, stream, startAt>>

\* _render_node, ins/del: "inner = RenderOut()" (526, 536)
BeginRevision(kind) ==
    /\ InPara
    /\ Len(stack) <= MaxNest
    /\ stack' = Append(stack, NewOut)
    /\ frames' = Append(frames, kind)
    /\ last' = Op("beginrev", kind, 0, AnyOpen(Top))
    /\ steps' = steps + 1
    /\ Record(<<"rev", kind>>)
    /\ UNCHANGED <<inputs, marker_calls, active_comment_ranges, collected_comments, emitted_comment_ids,
                   list_counters, pc, rows, output_lines, returned, stream, startAt>>

\* "{+" + txt + "+}" and "[-" + txt + "-]"
Wrap(kind, txt) ==
    IF kind = "ins" THEN <<"{+">> \o txt \o <<"+}">> ELSE <<"[-">> \o txt \o <<"-]">>

\* "txt = inner.finish()"
InnerText(o) == Str(FinishOut(o).parts)

\* _render_node, ins/del: the children are done (529-532, 539-542)
EndRevision ==
    /\ InPara
    /\ Len(stack) > 1
    /\ LET txt == InnerText(Top)
           kind == frames[Len(frames)]
           rest == SubSeq(stack, 1, Len(stack) - 1)
           parent == rest[Len(rest)]
       IN /\ stack' = IF txt # <<>>
                      THEN [rest EXCEPT ![Len(rest)] = AppendLiteralOut(parent, Wrap(kind, txt))]
                      ELSE rest
          /\ active_comment_ranges' =
                IF txt # <<>> THEN AppendToActiveRanges(active_comment_ranges, Wrap(kind, txt))
                ELSE active_comment_ranges
          /\ stream' = IF txt # <<>> THEN Append(stream, Wrap(kind, txt)) ELSE stream
          /\ last' = Op("endrev", kind, Len(txt), AnyOpen(parent))
    /\ frames' = SubSeq(frames, 1, Len(frames) - 1)
    /\ steps' = steps + 1
    /\ Record(<<"/rev">>)
    /\ UNCHANGED <<inputs, marker_calls, collected_comments, emitted_comment_ids, list_counters, pc,
                   rows, output_lines, returned, startAt>>

\* linearize_docx, a p child of the body: _render_paragraph starts (724-726, 602)
ParagraphBegin ==
    /\ pc = "body"
    /\ pc' = "para"
    /\ stack' = <<NewOut>>
    /\ frames' = <<>>
    /\ last' = Op("p", "", 0, FALSE)
    /\ steps' = steps + 1
    /\ Record(<<"p">>)
    /\ UNCHANGED <<inputs, marker_calls, active_comment_ranges, collected_comments, emitted_comment_ids,
                   list_counters, rows, output_lines, returned, stream, startAt>>

\* _render_paragraph once the content is rendered (604, 632-662), and
\* output_lines.extend (727); props are the paragraph's properties
ParagraphEnd(props) ==
    /\ pc = "para"
    /\ Len(stack) = 1
    /\ LET content == RStripToks(FinishOut(Top).parts)
           r == RenderParagraphLines(styles, numbering, list_counters, props, content,
                                     collected_comments)
       IN /\ output_lines' = output_lines \o r.lines
          /\ list_counters' = r.counters
          /\ marker_calls' = IF r.listed THEN CountCall(marker_calls, <<props.num_id, props.ilvl>>)
                              ELSE marker_calls
          /\ last' = [op |-> "endp", id |-> props.num_id, n |-> props.ilvl, flag |-> r.listed,
                       arg |-> props]
          /\ returned' = r.lines
    /\ collected_comments' = <<>>
    /\ stack' = <<>>
    /\ pc' = "body"
    /\ steps' = steps + 1
    /\ Record(<<"/p", props>>)
    /\ UNCHANGED <<inputs, active_comment_ranges, emitted_comment_ids, frames, rows,
                   stream, startAt>>

\* linearize_docx, a tbl child of the body: _render_table starts (728-730, 667)
TableBegin ==
    /\ pc = "body"
    /\ pc' = "tbl"
    /\ rows' = <<>>
    /\ last' = Op("tbl", "", 0, FALSE)
    /\ steps' = steps + 1
    /\ Record(<<"tbl">>)
    /\ UNCHANGED <<inputs, marker_calls, active_comment_ranges, collected_comments, emitted_comment_ids,
                   list_counters, stack, frames, output_lines, returned, stream, startAt>>

\* _render_table, the next tr (669-670)
TableRow ==
    /\ pc = "tbl"
    /\ rows' = Append(rows, <<>>)
    /\ last' = Op("tr", "", Len(rows) + 1, FALSE)
    /\ steps' = steps + 1
    /\ Record(<<"tr">>)
    /\ UNCHANGED <<inputs, marker_calls, active_comment_ranges, collected_comments, emitted_comment_ids,
                   list_counters, pc, stack, frames, output_lines, returned, stream, startAt>>

\* _render_table, the next tc of the row (671-672)
TableCell ==
    /\ pc = "tbl"
    /\ rows # <<>>
    /\ rows' = [rows EXCEPT ![Len(rows)] = Append(@, <<>>)]
    /\ last' = Op("tc", "", Len(rows[Len(rows)]) + 1, FALSE)
    /\ steps' = steps + 1
    /\ Record(<<"tc">>)
    /\ UNCHANGED <<inputs, marker_calls, active_comment_ranges, collected_comments, emitted_comment_ids,
                   list_counters, pc, stack, frames, output_lines, returned, stream, startAt>>

\* _render_table, the next p of the cell: _render_paragraph_content starts (673-674)
CellParagraphBegin ==
    /\ pc = "tbl"
    /\ rows # <<>>
    /\ rows[Len(rows)] # <<>>
    /\ pc' = "cell"
    /\ stack' = <<NewOut>>
    /\ frames' = <<>>
    /\ last' = Op("cellp", "", 0, FALSE)
    /\ steps' = steps + 1
    /\ Record(<<"p">>)
    /\ UNCHANGED <<inputs, marker_calls, active_comment_ranges, collected_comments, emitted_comment_ids,
                   list_counters, rows, output_lines, returned, stream, startAt>>

\* _render_table, the cell's paragraph is rendered (604, 675-676)
CellParagraphEnd ==
    /\ pc = "cell"
    /\ Len(stack) = 1
    /\ LET content == Str(RStripToks(FinishOut(Top).parts))
           r == Len(rows)
           c == Len(rows[r])
       IN /\ rows' = IF content # <<>>
                     THEN [rows EXCEPT ![r] = [@ EXCEPT ![c] = Append(@, content)]]
                     ELSE rows
          /\ last' = Op("endcellp", "", Len(content), FALSE)
    /\ stack' = <<>>
    /\ pc' = "tbl"
    /\ steps' = steps + 1
    /\ Record(<<"/p">>)
    /\ UNCHANGED <<inputs, marker_calls, active_comment_ranges, collected_comments, emitted_comment_ids,
                   list_counters, frames, output_lines, returned, stream, startAt>>

\* _render_table after the rows are read (680-698) into the fresh buffer of
\* linearize_docx, and the chunk appended (731-733)
TableEnd ==
    /\ pc = "tbl"
    /\ LET cells == RowCells(rows)
           lits == TableLiterals(cells)
           out == AppendLiterals(NewOut, lits)
           chunk == RStripToks(FinishOut(out).parts)
       IN /\ active_comment_ranges' = AppendAllToRanges(active_comment_ranges, lits)
          /\ stream' = stream \o lits
          /\ output_lines' = IF chunk # <<>>
                             THEN Append(output_lines, Item("chunk", "", chunk, <<>>))
                             ELSE output_lines
          /\ returned' = lits
          /\ last' = Op("endtbl", "", MaxCols(cells), chunk # <<>>)
    /\ pc' = "body"
    /\ steps' = steps + 1
    /\ Record(<<"/tbl">>)
    /\ UNCHANGED <<inputs, marker_calls, collected_comments, emitted_comment_ids, list_counters, stack,
                   frames, rows, startAt>>

\* linearize_docx after the body loop (736-743)
DocumentEnd ==
    /\ pc = "body"
    /\ output_lines' = output_lines \o CommentBlocks(collected_comments)
    /\ collected_comments' = <<>>
    /\ returned' = output_lines \o CommentBlocks(collected_comments)
    /\ pc' = "done"
    /\ last' = Op("end-of-document", "", 0, collected_comments # <<>>)
    /\ steps' = steps + 1
    /\ Record(<<"/body">>)
    /\ UNCHANGED <<inputs, marker_calls, active_comment_ranges, emitted_comment_ids, list_counters, stack,
                   frames, rows, stream, startAt>>

\* RenderState.get_list_marker, called on its own between two body children
ListMarkerCall(num_id, ilvl) ==
    /\ pc = "body"
    /\ LET r == GetListMarker(numbering, list_counters, num_id, ilvl)
       IN /\ list_counters' = r.counters
          /\ returned' = r.marker
    /\ marker_calls' = CountCall(marker_calls, <<num_id, ilvl>>)
    /\ last' = Op("marker", num_id, ilvl, GetLevel(numbering, num_id, ilvl) # <<>>)
    /\ steps' = steps + 1
    /\ Record(<<"get_list_marker", num_id, ilvl>>)
    /\ UNCHANGED <<inputs, active_comment_ranges, collected_comments, emitted_comment_ids,
                   pc, stack, frames, rows, output_lines, stream, startAt>>

\* ----------------------------------------------------------- specifications
\* The state after RenderState(comments, numbering, styles) is constructed.
Fresh(reg, where) ==
    /\ comments = reg
    /\ numbering = NumberingA
    /\ styles = StylesA
    /\ active_comment_ranges = <<>>
    /\ collected_comments = <<>>
    /\ emitted_comment_ids = {}
    /\ list_counters = <<>>
    /\ pc = where
    /\ stack = IF where = "buf" THEN <<NewOut>> ELSE <<>>
    /\ frames = <<>>
    /\ rows = <<>>
    /\ output_lines = <<>>
    /\ returned = <<>>
    /\ stream = <<>>
    /\ startAt = [id \in Ids |-> 0]
    /\ marker_calls = <<>>
    /\ last = Op("init", "", 0, FALSE)
    /\ steps = 0
    /\ nodes = <<>>
    /\ runs = <<>>

\* Text fragments of the body.
DocTexts == {<<"a">>, <<" ">>}
Bold == RunContext(FALSE, TRUE, FALSE)

\* linearize_docx on a body of paragraphs and tables carrying comments
Init == \E reg \in Registries : Fresh(reg, "body")

\* Once bound nodes are rendered nothing more is opened or added; what is
\* open can always be closed.
More(bound) == steps < bound

Next ==
    \/ More(MaxSteps) /\ ParagraphBegin
    \/ More(MaxSteps) /\ \E cid \in Ids : CommentRangeStart(cid)
    \/ More(MaxSteps) /\ \E cid \in Ids : CommentRangeEnd(cid)
    \/ More(MaxSteps) /\ \E cid \in Ids : CommentReference(cid)
    \/ More(MaxSteps) /\ \E text \in DocTexts : EmitText(text, NoFormat)
    \/ More(MaxSteps) /\ EmitLiteral(<<"TAB">>)
    \/ More(MaxSteps) /\ \E kind \in {"ins", "del"} : BeginRevision(kind)
    \/ More(MaxSteps) /\ TableBegin
    \/ More(MaxSteps) /\ TableRow
    \/ More(MaxSteps) /\ TableCell
    \/ More(MaxSteps) /\ CellParagraphBegin
    \/ EndRevision
    \/ \E props \in {ParagraphProps("", "", 0)} : ParagraphEnd(props)
    \/ CellParagraphEnd
    \/ TableEnd
    \/ DocumentEnd

Spec == Init /\ [][Next]_vars

\* The same with the one registry that holds every id.
InitOne == Fresh(RegBoth, "body")

\* One RenderOut driven through its API: append_text, append_literal, finish
InitBuf == Fresh(RegBoth, "buf")

BufTexts == {<<>>, <<"a">>}
BufLiterals == {<<>>, <<"TAB">>}

NextBuf ==
    \/ More(MaxBufCalls) /\ \E text \in BufTexts, ctx \in AllContexts : EmitText(text, ctx)
    \/ More(MaxBufCalls) /\ \E literal \in BufLiterals : EmitLiteral(literal)
    \/ BufFinish

SpecBuf == InitBuf /\ [][NextBuf]_vars

\* RenderState.get_list_marker called for any list id and depth between the
\* paragraphs of a body, and by the paragraphs themselves
NextList ==
    \/ More(MaxListCalls) /\ \E num_id \in NumIds, ilvl \in Depths : ListMarkerCall(num_id, ilvl)
    \/ More(MaxListCalls) /\ ParagraphBegin
    \/ More(MaxListCalls) /\ EmitText(<<"a">>, NoFormat)
    \/ \E props \in PropsSet : ParagraphEnd(props)

SpecList == InitOne /\ [][NextList]_vars

\* A paragraph with formatted runs and tracked insertions/deletions
RevContexts == {NoFormat, Bold, RunContext(TRUE, FALSE, TRUE)}

NextRev ==
    \/ More(MaxRevSteps) /\ ParagraphBegin
    \/ More(MaxRevSteps) /\ \E ctx \in RevContexts : EmitText(<<"a">>, ctx)
    \/ More(MaxRevSteps) /\ EmitLiteral(<<"TAB">>)
    \/ More(MaxRevSteps) /\ \E kind \in {"ins", "del"} : BeginRevision(kind)
    \/ EndRevision
    \/ \E props \in {ParagraphProps("", "", 0)} : ParagraphEnd(props)
    \/ DocumentEnd

SpecRev == InitOne /\ [][NextRev]_vars

\* A body of tables whose cells hold paragraphs of text
NextTable ==
    \/ More(MaxTblSteps) /\ TableBegin
    \/ More(MaxTblSteps) /\ TableRow
    \/ More(MaxTblSteps) /\ TableCell
    \/ More(MaxTblSteps) /\ CellParagraphBegin
    \/ More(MaxTblSteps) /\ \E text \in DocTexts : EmitText(text, NoFormat)
    \/ More(MaxTblSteps) /\ EmitLiteral(<<"NL">>)
    \/ CellParagraphEnd
    \/ TableEnd
    \/ DocumentEnd

SpecTable == InitOne /\ [][NextTable]_vars

\* ------------------------------------------------------------ _parse_styles
\* A style element of styles.xml: its styleId attribute ("" when absent),
\* the val of pPr/outlineLvl and the val of name, each <<>> when the element
\* or attribute is absent and <<string>> otherwise.
Style(styleId, outline, name) == [styleId |-> styleId, outline |-> outline, name |-> name]

\* int(val) for a string of decimal digits
RECURSIVE DigitsValue(_, _)
DigitsValue(s, acc) ==
    IF s = <<>> THEN acc
    ELSE DigitsValue(Tail(s), acc * 10 + (CHOOSE d \in 0..9 : DigitChars[d + 1] = Head(s)))

IsDigit(c) == \E d \in 0..9 : DigitChars[d + 1] = c
IsDigits(s) == s # <<>> /\ \A i \in 1..Len(s) : IsDigit(s[i])

\* int(val) succeeds: an optional sign and digits
IsInt(s) == IsDigits(s) \/ (s # <<>> /\ Head(s) = "-" /\ IsDigits(Tail(s)))
IntOf(s) == IF Head(s) = "-" THEN 0 - DigitsValue(Tail(s), 0) ELSE DigitsValue(s, 0)

\* name.lower(), a name being a sequence of words, blanks and digits; the
\* word "biaoti" stands for the two CJK characters U+6807 U+9898 of the pattern
LowerTok(c) == IF c \in {"Heading", "HEADING"} THEN "heading" ELSE c
Lower(s) == [i \in 1..Len(s) |-> LowerTok(s[i])]

\* the longest prefix of s made of characters of the set
RECURSIVE SpanLen(_, _)
SpanLen(s, set) == IF s # <<>> /\ Head(s) \in set THEN 1 + SpanLen(Tail(s), set) ELSE 0

Drop(s, n) == SubSeq(s, n + 1, Len(s))

\* re.match(r"(?:heading|<biaoti>)\s*(\d+)", name_lower): <<>> when there is no
\* match, <<group 1>> otherwise
HeadingMatch(name_lower) ==
    IF name_lower = <<>> \/ Head(name_lower) \notin {"heading", "biaoti"} THEN <<>>
    ELSE LET afterWord == Tail(name_lower)
             afterWs == Drop(afterWord, SpanLen(afterWord, Whitespace))
             n == SpanLen(afterWs, {DigitChars[d + 1] : d \in 0..9})
         IN IF n = 0 THEN <<>> ELSE <<SubSeq(afterWs, 1, n)>>

SetLevel(levels, style_id, lvl) ==
    [k \in DOMAIN levels \cup {style_id} |-> IF k = style_id THEN lvl ELSE levels[k]]

\* the outlineLvl branch of the loop body raises ValueError
OutlineRaises(style) ==
    style.styleId # "" /\ style.outline # <<>> /\ ~IsInt(style.outline[1])

\* the outlineLvl branch: "if 0 <= lvl <= 5: heading_levels[style_id] = lvl + 1"
ApplyOutline(levels, style) ==
    IF style.outline # <<>> /\ IntOf(style.outline[1]) \in 0..5
    THEN SetLevel(levels, style.styleId, IntOf(style.outline[1]) + 1)
    ELSE levels

\* mutant: the name does not replace a level already recorded
ApplyName_keepOutline(levels, style) ==
    LET m == IF style.name = <<>> THEN <<>> ELSE HeadingMatch(Lower(style.name[1]))
    IN IF m # <<>> /\ IntOf(m[1]) \in 1..6 /\ style.styleId \notin DOMAIN levels
       THEN SetLevel(levels, style.styleId, IntOf(m[1])) ELSE levels
\* the name branch: "if 1 <= lvl <= 6: heading_levels[style_id] = lvl"
ApplyName(levels, style) ==
    LET m == IF style.name = <<>> THEN <<>> ELSE HeadingMatch(Lower(style.name[1]))
    IN IF m # <<>> /\ IntOf(m[1]) \in 1..6
       THEN SetLevel(levels, style.styleId, IntOf(m[1])) ELSE levels

\* one iteration of the loop over the style elements
ParseStyleInto(levels, style) ==
    IF style.styleId = "" THEN levels
    ELSE ApplyName(ApplyOutline(levels, style), style)

StyleIds == {"", "S1", "S2"}
OutlineVals == {<<>>, <<<<"0">>>>, <<<<"1">>>>, <<<<"5">>>>, <<<<"6">>>>, <<<<"-", "1">>>>,
                <<<<"x">>>>}
StyleNames == {<<>>, <<<<>>>>, <<<<"Heading", " ", "1">>>>, <<<<"heading", "2">>>>,
               <<<<"biaoti", " ", "6">>>>, <<<<"HEADING", " ", "7">>>>, <<<<"Heading", " ", "0">>>>,
               <<<<"Heading", " ", "1", "0">>>>, <<<<"Title">>>>, <<<<"Title", " ", "1">>>>,
               <<<<"Heading", " ", "3", " ", "Title">>>>}
StyleElements == {Style(i, o, n) : i \in StyleIds, o \in OutlineVals, n \in StyleNames}

OpWith(op, id, arg) == [op |-> op, id |-> id, n |-> 0, flag |-> FALSE, arg |-> arg]

\* _parse_styles, the next style element of styles.xml
ParseStyle(style) ==
    /\ pc = "styles"
    /\ IF OutlineRaises(style)
       THEN pc' = "error" /\ styles' = styles
       ELSE pc' = pc /\ styles' = ParseStyleInto(styles, style)
    /\ last' = OpWith("style", style.styleId, style)
    /\ steps' = steps + 1
    /\ Record(<<"style", style>>)
    /\ UNCHANGED <<comments, numbering, marker_calls, active_comment_ranges, collected_comments,
                   emitted_comment_ids, list_counters, stack, frames, rows, output_lines,
                   returned, stream, startAt>>

\* _parse_styles on a styles.xml: info = StyleInfo(), then the loop
InitStyles ==
    /\ comments = <<>>
    /\ numbering = NumberingA
    /\ styles = <<>>
    /\ active_comment_ranges = <<>>
    /\ collected_comments = <<>>
    /\ emitted_comment_ids = {}
    /\ list_counters = <<>>
    /\ pc = "styles"
    /\ stack = <<>>
    /\ frames = <<>>
    /\ rows = <<>>
    /\ output_lines = <<>>
    /\ returned = <<>>
    /\ stream = <<>>
    /\ startAt = [id \in Ids |-> 0]
    /\ marker_calls = <<>>
    /\ last = Op("init", "", 0, FALSE)
    /\ steps = 0
    /\ nodes = <<>>
    /\ runs = <<>>

NextStyles == More(MaxStyles) /\ \E style \in StyleElements : ParseStyle(style)

SpecStyles == InitStyles /\ [][NextStyles]_vars

\* A body of paragraphs that carry a style id and a list id, with comments
NextPara ==
    \/ More(MaxParaSteps) /\ ParagraphBegin
    \/ More(MaxParaSteps) /\ \E cid \in Ids : CommentRangeStart(cid)
    \/ More(MaxParaSteps) /\ \E cid \in Ids : CommentRangeEnd(cid)
    \/ More(MaxParaSteps) /\ \E cid \in Ids : CommentReference(cid)
    \/ More(MaxParaSteps) /\ \E text \in DocTexts : EmitText(text, NoFormat)
    \/ \E props \in PropsSet : ParagraphEnd(props)
    \/ DocumentEnd

SpecPara == InitOne /\ [][NextPara]_vars

\* ------------------------------------------------- linearize_docx, the parts
\* A .docx file: whether it is a zip archive, and for each part whether the
\* entry is there and is well-formed XML.  "nobody" is a main part that
\* parses but has no body element.
Docx(zip, document, cmts, num, sty) ==
    [zip |-> zip, document |-> document, comments |-> cmts, numbering |-> num, styles |-> sty]

PartStates == {"ok", "missing", "malformed"}
DocxFiles ==
    {Docx(z, d, c, n, s) : z \in BOOLEAN, d \in PartStates \cup {"nobody"},
                           c \in PartStates, n \in PartStates, s \in PartStates}

\* _read_xml_from_docx: "raise" (RuntimeError), "none" (None) or "root"
ReadXml(zip, part) ==
    IF ~zip THEN "raise"
    ELSE IF part = "missing" THEN "none"
    ELSE IF part = "malformed" THEN "raise"
    ELSE "root"

EmptyNumbering == [abstract_nums |-> <<>>, num_to_abstract |-> <<>>]

\* _parse_comments, _parse_numbering, _parse_styles on the root read
ParseComments(root) == IF root = "none" THEN <<>> ELSE RegBoth
ParseNumbering(root) == IF root = "none" THEN EmptyNumbering ELSE NumberingA
ParseStyles(root) == IF root = "none" THEN <<>> ELSE StylesA

\* linearize_docx up to the body loop (703-722): "error" when an exception
\* leaves the function, "done" when "" is returned, "body" otherwise
LoadOutcome(docx) ==
    LET d == ReadXml(docx.zip, IF docx.document = "nobody" THEN "ok" ELSE docx.document)
    IN IF d \in {"raise", "none"} THEN "error"
       ELSE IF "raise" \in {ReadXml(docx.zip, docx.comments), ReadXml(docx.zip, docx.numbering),
                           ReadXml(docx.zip, docx.styles)} THEN "error"
       ELSE IF docx.document = "nobody" THEN "done"
       ELSE "body"

Load(docx) ==
    /\ pc = "load"
    /\ pc' = LoadOutcome(docx)
    /\ IF LoadOutcome(docx) = "error"
       THEN UNCHANGED <<comments, numbering, styles>>
       ELSE /\ comments' = ParseComments(ReadXml(docx.zip, docx.comments))
            /\ numbering' = ParseNumbering(ReadXml(docx.zip, docx.numbering))
            /\ styles' = ParseStyles(ReadXml(docx.zip, docx.styles))
    /\ last' = OpWith("load", "", docx)
    /\ steps' = steps + 1
    /\ Record(<<"load", docx>>)
    /\ UNCHANGED <<marker_calls, active_comment_ranges, collected_comments, emitted_comment_ids,
                   list_counters, stack, frames, rows, output_lines, returned, stream, startAt>>

\* linearize_docx is entered: nothing is read yet
InitLoad ==
    /\ comments = <<>>
    /\ numbering = EmptyNumbering
    /\ styles = <<>>
    /\ active_comment_ranges = <<>>
    /\ collected_comments = <<>>
    /\ emitted_comment_ids = {}
    /\ list_counters = <<>>
    /\ pc = "load"
    /\ stack = <<>>
    /\ frames = <<>>
    /\ rows = <<>>
    /\ output_lines = <<>>
    /\ returned = <<>>
    /\ stream = <<>>
    /\ startAt = [id \in Ids |-> 0]
    /\ marker_calls = <<>>
    /\ last = Op("init", "", 0, FALSE)
    /\ steps = 0
    /\ nodes = <<>>
    /\ runs = <<>>

\* linearize_docx on a file whose body holds paragraphs with a comment
NextLoad ==
    \/ \E docx \in DocxFiles : Load(docx)
    \/ More(MaxLoadSteps) /\ ParagraphBegin
    \/ More(MaxLoadSteps) /\ EmitText(<<"a">>, NoFormat)
    \/ More(MaxLoadSteps) /\ CommentReference("1")
    \/ \E props \in PropsSet : ParagraphEnd(props)
    \/ DocumentEnd

SpecLoad == InitLoad /\ [][NextLoad]_vars

\* ------------------------------------------------ linearize_docx called again
\* mutant: the counters of the previous state are kept
NewRenderState_sharedCounters(reg, num, sty) ==
    [comments |-> reg, numbering |-> num, styles |-> sty,
     active_comment_ranges |-> <<>>, collected_comments |-> <<>>,
     emitted_comment_ids |-> {}, list_counters |-> list_counters]

\* RenderState(comments=..., numbering=..., styles=...): the other fields
\* take their default_factory values
NewRenderState(reg, num, sty) ==
    [comments |-> reg, numbering |-> num, styles |-> sty,
     active_comment_ranges |-> <<>>, collected_comments |-> <<>>,
     emitted_comment_ids |-> {}, list_counters |-> <<>>]

\* linearize_docx is called again on the same file once the previous call
\* has returned: the parts are parsed again, a new RenderState is built and
\* output_lines is a new list (703-722)
Reenter ==
    /\ pc = "done"
    /\ runs = <<>>
    /\ LET state == NewRenderState(comments, numbering, styles)
       IN /\ comments' = state.comments
          /\ numbering' = state.numbering
          /\ styles' = state.styles
          /\ active_comment_ranges' = state.active_comment_ranges
          /\ collected_comments' = state.collected_comments
          /\ emitted_comment_ids' = state.emitted_comment_ids
          /\ list_counters' = state.list_counters
    /\ output_lines' = <<>>
    /\ pc' = "body"
    /\ stack' = <<>>
    /\ frames' = <<>>
    /\ rows' = <<>>
    /\ returned' = <<>>
    /\ stream' = <<>>
    /\ startAt' = [id \in Ids |-> 0]
    /\ marker_calls' = <<>>
    /\ last' = Op("linearize_docx", "", Len(runs) + 2, FALSE)
    /\ steps' = 0
    /\ runs' = Append(runs, [nodes |-> nodes, out |-> returned])
    /\ nodes' = <<<<"linearize_docx">>>>

\* The first call is entered and its nodes are recorded.
InitTwice ==
    /\ comments = RegBoth
    /\ numbering = NumberingA
    /\ styles = StylesA
    /\ active_comment_ranges = <<>>
    /\ collected_comments = <<>>
    /\ emitted_comment_ids = {}
    /\ list_counters = <<>>
    /\ pc = "body"
    /\ stack = <<>>
    /\ frames = <<>>
    /\ rows = <<>>
    /\ output_lines = <<>>
    /\ returned = <<>>
    /\ stream = <<>>
    /\ startAt = [id \in Ids |-> 0]
    /\ marker_calls = <<>>
    /\ last = Op("linearize_docx", "", 1, FALSE)
    /\ steps = 0
    /\ nodes = <<<<"linearize_docx">>>>
    /\ runs = <<>>

TwiceProps == {ParagraphProps("", "", 0), ParagraphProps("", "L1", 0)}

\* Two conversions, each of a body of list paragraphs with a comment
NextTwice ==
    \/ More(MaxRunSteps) /\ ParagraphBegin
    \/ More(MaxRunSteps) /\ CommentRangeStart("1")
    \/ More(MaxRunSteps) /\ CommentRangeEnd("1")
    \/ More(MaxRunSteps) /\ CommentReference("1")
    \/ More(MaxRunSteps) /\ EmitText(<<"a">>, NoFormat)
    \/ \E props \in TwiceProps : ParagraphEnd(props)
    \/ DocumentEnd
    \/ Reenter

SpecTwice == InitTwice /\ [][NextTwice]_vars

\* A body of tables and paragraphs, one comment anchored anywhere in it; the
\* nodes are recorded
NextCells ==
    \/ More(MaxCellSteps) /\ ParagraphBegin
    \/ More(MaxCellSteps) /\ TableBegin
    \/ More(MaxCellSteps) /\ TableRow
    \/ More(MaxCellSteps) /\ TableCell
    \/ More(MaxCellSteps) /\ CellParagraphBegin
    \/ More(MaxCellSteps) /\ CommentRangeStart("1")
    \/ More(MaxCellSteps) /\ CommentRangeEnd("1")
    \/ More(MaxCellSteps) /\ CommentReference("1")
    \/ More(MaxCellSteps) /\ EmitText(<<"a">>, NoFormat)
    \/ \E props \in {ParagraphProps("", "", 0)} : ParagraphEnd(props)
    \/ CellParagraphEnd
    \/ TableEnd
    \/ DocumentEnd

SpecCells == InitTwice /\ [][NextCells]_vars

\* ------------------------------------------------------------ the final text
\* One line of an annotation block as _format_comment_block writes it;
\* "YUANWEN" (U+539F U+6587) and "PIZHU" are the labels of the source and
\* "FWCOLON" its full-width colon U+FF1A.
BlockLineStr(l) ==
    IF l.k = "meta" THEN <<">", " ">> \o JoinWith(l.v, <<" ">>)
    ELSE IF l.k = "original" THEN <<">", " ", "**", "YUANWEN", "**", "FWCOLON">> \o l.v
    ELSE <<">", " ", "**", "PIZHU", "**", "FWCOLON">> \o l.v

\* The string an item of output_lines is: a content line or a table chunk as
\* rendered, "" for a blank line, "\n".join(lines) for a block.
ItemStr(item) ==
    IF item.t = "block"
    THEN JoinWith([k \in 1..Len(item.lines) |-> BlockLineStr(item.lines[k])], <<"NL">>)
    ELSE Str(item.text)

\* text = "\n".join(output_lines).rstrip(); return (text + "\n") if text else ""
FinalText(lines) ==
    LET text == RStripStr(JoinWith([k \in 1..Len(lines) |-> ItemStr(lines[k])], <<"NL">>))
    IN IF text # <<>> THEN Append(text, "NL") ELSE <<>>

\* ------------------------------------------------------------ nested lists
\* A numbering part whose abstract definition has two ordered levels, the
\* second nested in the first, used by two list instances.
NumberingB ==
    [abstract_nums |->
        ("A1" :> ((0 :> NumberingLevel("decimal", "%1.", 1))
               @@ (1 :> NumberingLevel("lowerLetter", "%2)", 1)))),
     num_to_abstract |-> ("L1" :> "A1") @@ ("L2" :> "A1")]

NestedProps == {ParagraphProps("", "L1", 0), ParagraphProps("", "L1", 1),
                ParagraphProps("", "L2", 0)}

InitNested ==
    /\ comments = RegBoth
    /\ numbering = NumberingB
    /\ styles = StylesA
    /\ active_comment_ranges = <<>>
    /\ collected_comments = <<>>
    /\ emitted_comment_ids = {}
    /\ list_counters = <<>>
    /\ pc = "body"
    /\ stack = <<>>
    /\ frames = <<>>
    /\ rows = <<>>
    /\ output_lines = <<>>
    /\ returned = <<>>
    /\ stream = <<>>
    /\ startAt = [id \in Ids |-> 0]
    /\ marker_calls = <<>>
    /\ last = Op("init", "", 0, FALSE)
    /\ steps = 0
    /\ nodes = <<>>
    /\ runs = <<>>

\* A body of paragraphs of two lists, at two depths
NextNested ==
    \/ More(MaxNestedSteps) /\ ParagraphBegin
    \/ More(MaxNestedSteps) /\ EmitText(<<"a">>, NoFormat)
    \/ \E props \in NestedProps : ParagraphEnd(props)
    \/ DocumentEnd

SpecNested == InitNested /\ [][NextNested]_vars

\* ------------------------------------------------------------------ claims
BlocksOf(lines, id) == {k \in 1..Len(lines) : lines[k].t = "block" /\ lines[k].id = id}

\* Number of tokens of a buffer string that are the marker the buffer emitted.
MarkerCount(toks, marker) ==
    Cardinality({k \in 1..Len(toks) : toks[k].m /\ toks[k].c = marker})

\* C1: whatever range-start, range-end and reference nodes the paragraphs and
\* table cells of a document hold, no comment id has more than one annotation
\* block in the output.
C1_EmittedAtMostOnce ==
    \A id \in Ids : Cardinality(BlocksOf(output_lines, id)) <= 1

\* C1 witness: a range-end fires for a registered id whose block a bare
\* reference already put in the output; the output still holds one block.
C1_Witness ==
    /\ last.op = "end"
    /\ last.flag
    /\ last.id \in DOMAIN comments
    /\ Cardinality(BlocksOf(output_lines, last.id)) = 1

\* C2: once finish() has returned, each of the three markers was emitted an
\* even number of times into the returned string and no flag is open.
C2_BalancedAfterFinish ==
    pc = "finished" =>
        /\ \A marker \in MarkerStrs : MarkerCount(returned, marker) % 2 = 0
        /\ ~AnyOpen(Top)

\* C2 witness: finish() closed markers that append_text had left open, after a
\* literal had already closed some.
C2_Witness ==
    /\ pc = "finished"
    /\ last.flag
    /\ MarkerCount(returned, "==") >= 2
    /\ MarkerCount(returned, "*") >= 4
    /\ \E k \in 1..Len(returned) : returned[k].c = "TAB"

\* The markers open before a token of a buffer string (those emitted an odd
\* number of times), and whether each marker is closed only when those that
\* must close before it are closed.
MustCloseFirst(marker) ==
    IF marker = "==" THEN {"**", "*"} ELSE IF marker = "**" THEN {"*"} ELSE {}

OpenBefore(toks, k) ==
    {marker \in MarkerStrs :
        Cardinality({j \in 1..(k - 1) : toks[j].m /\ toks[j].c = marker}) % 2 = 1}

ClosedInOrder(toks) ==
    \A k \in 1..Len(toks) :
        (toks[k].m /\ toks[k].c \in OpenBefore(toks, k))
            => OpenBefore(toks, k) \cap MustCloseFirst(toks[k].c) = {}

\* C3: in the string a buffer returns, a bold marker is never closed while an
\* italic marker is open and a highlight marker is never closed while a bold
\* or italic marker is open.
C3_ClosedInOrder == pc = "finished" => ClosedInOrder(returned)

\* C4: at the end of the document every registered id whose range is still
\* active has an annotation block in the output.
C4_UnterminatedFlushed ==
    pc = "done" =>
        \A id \in DOMAIN active_comment_ranges \cap DOMAIN comments :
            BlocksOf(output_lines, id) # {}

\* The fragments forwarded to the ranges since the range of id was opened.
SinceStart(id) == SubSeq(stream, startAt[id] + 1, Len(stream))

\* C5: when a range-end collects a comment, its original text is the trimmed,
\* whitespace-collapsed concatenation of the fragments emitted since that id's
\* own range-start, whatever other ranges were opened or closed meanwhile.
C5_Step ==
    (/\ steps' = steps + 1
     /\ last'.op = "end"
     /\ Len(collected_comments') = Len(collected_comments) + 1)
    => /\ collected_comments'[Len(collected_comments')].comment_id = last'.id
       /\ collected_comments'[Len(collected_comments')].original_text
              = Normalize(Flatten(SinceStart(last'.id)))

C5_OwnFragments == [][C5_Step]_vars

\* C5 witness: a range-end collects a non-empty text that trimming changed,
\* while another range, opened later after some of that text, is still active
\* and has received text.
C5_Witness ==
    /\ last.op = "end"
    /\ last.flag
    /\ collected_comments # <<>>
    /\ collected_comments[Len(collected_comments)].comment_id = last.id
    /\ collected_comments[Len(collected_comments)].original_text # <<>>
    /\ collected_comments[Len(collected_comments)].original_text # Flatten(SinceStart(last.id))
    /\ \E other \in DOMAIN active_comment_ranges :
          /\ startAt[other] > startAt[last.id]
          /\ active_comment_ranges[other] # <<>>

\* The level a get_list_marker call resolved, for the call recorded in last.
LastLevel == GetLevel(numbering, last.id, last.n)
LastOrdered == LastLevel # <<>> /\ LastLevel[1].num_fmt \in OrderedFormats

LastWasMarkerCall == last.op = "marker" \/ (last.op = "endp" /\ last.flag)

\* C6: the k-th call of get_list_marker for a (listId, depth) of an ordered
\* format returns the depth's indent, then start + k - 1 in decimal, then ". ",
\* whatever calls for other pairs and whatever paragraphs came between (a list
\* paragraph's line is that marker followed by its content, here "a"...).
C6_OrdinalSequence ==
    (LastWasMarkerCall /\ LastOrdered) =>
        LET expected == Indent(last.n)
                        \o Decimal(LastLevel[1].start + marker_calls[<<last.id, last.n>>] - 1)
                        \o <<".", " ">>
        IN IF last.op = "marker" THEN returned = expected
           ELSE /\ SubSeq(Str(returned[1].text), 1, Len(expected)) = expected
                /\ Str(returned[1].text)[Len(expected) + 1] = "a"

\* C6 witness: the third call for a pair whose level starts at 3, made by a
\* list paragraph, after calls for other pairs.
C6_Witness ==
    /\ last.op = "endp"
    /\ last.flag
    /\ LastOrdered
    /\ marker_calls[<<last.id, last.n>>] >= 2
    /\ Cardinality(DOMAIN marker_calls) >= 2
    /\ Cardinality(DOMAIN list_counters) >= 2

\* C7: when no level resolves, the marker is two spaces per depth, then "- ".
C7_DefaultBulletIndented ==
    (last.op = "marker" /\ LastLevel = <<>>) =>
        returned = Indent(last.n) \o <<"-", " ">>

WrapperChars == {"{+", "+}", "[-", "-]"}

\* Occurrences of a marker string before position k of a buffer string.
CharsBefore(toks, k, marker) ==
    Cardinality({j \in 1..(k - 1) : toks[j].c = marker})

\* Every marker before a wrapper's opening or closing bracket is paired.
WrappersOutsideMarkers(toks) ==
    \A k \in 1..Len(toks) :
        toks[k].c \in WrapperChars =>
            \A marker \in MarkerStrs : CharsBefore(toks, k, marker) % 2 = 0

\* C8, in every state: in every open buffer and every finished line the markers
\* before a revision bracket are paired (the parent's are closed before the
\* wrapper, the inner ones inside it), and right after a wrapper is appended
\* the parent has no marker open.
C8_State ==
    /\ \A k \in 1..Len(stack) : WrappersOutsideMarkers(stack[k].parts)
    /\ \A k \in 1..Len(output_lines) : WrappersOutsideMarkers(output_lines[k].text)
    /\ (last.op = "endrev" /\ last.n > 0) =>
          /\ ~AnyOpen(Top)
          /\ Top.parts[Len(Top.parts)].c \in {"+}", "-]"}

\* C8, in every step: a revision whose inner rendering is empty leaves the
\* parent buffer and the ranges as they were.
C8_EmptyStep ==
    (steps' = steps + 1 /\ last'.op = "endrev" /\ last'.n = 0)
    => /\ stack' = SubSeq(stack, 1, Len(stack) - 1)
       /\ active_comment_ranges' = active_comment_ranges
       /\ stream' = stream

\* C8: a revision wrapper never sits between a marker the parent opened and its
\* closing marker, and an empty revision appends nothing.
C8_RevisionWrapping == []C8_State /\ [][C8_EmptyStep]_vars

\* C8 witness: a wrapper holding formatted text was appended to a parent that
\* had markers open, inside another revision.
C8_Witness ==
    /\ last.op = "endrev"
    /\ last.n > 1
    /\ last.flag
    /\ Len(stack) > 1

CountChar(s, c) == Cardinality({k \in 1..Len(s) : s[k] = c})

\* The cells of an emitted row "| c1 | ... | cn |": one less than its bars.
CellsOf(line) == CountChar(line, "|") - 1

IsSeparator(line) ==
    /\ CellsOf(line) > 0
    /\ CountChar(line, "-") = 3 * CellsOf(line)
    /\ \A k \in 1..Len(line) : line[k] \in {"|", " ", "-", "NL"}

\* C9: a table with a cell is emitted as one row per table row plus one
\* separator row, each as wide as the widest table row; the separator is the
\* second row emitted and the only one; the chunk put in the output is these
\* rows, one after the other.
C9_TableShape ==
    (last.op = "endtbl" /\ \E r \in 1..Len(rows) : rows[r] # <<>>) =>
        /\ Len(returned) = Len(rows) + 1
        /\ \A k \in 1..Len(returned) :
              /\ \A r \in 1..Len(rows) : CellsOf(returned[k]) >= Len(rows[r])
              /\ \E r \in 1..Len(rows) : CellsOf(returned[k]) = Len(rows[r])
              /\ IsSeparator(returned[k]) <=> k = 2
              /\ returned[k][Len(returned[k])] = "NL"
        /\ output_lines # <<>>
        /\ output_lines[Len(output_lines)].t = "chunk"
        /\ Str(output_lines[Len(output_lines)].text) = RStripStr(Flatten(returned))

\* C9 witness: a table whose first row is shorter than its second and holds
\* text was emitted.
C9_Witness ==
    /\ last.op = "endtbl"
    /\ Len(rows) >= 2
    /\ Len(rows[1]) < Len(rows[2])
    /\ \E c \in 1..Len(rows[1]) : rows[1][c] # <<>>

\* C10: a range-end or a reference for an id the registry lacks enqueues
\* nothing and marks nothing emitted; the range-end removes that id's range,
\* the other ranges stay.
C10_Step ==
    (/\ steps' = steps + 1
     /\ last'.op \in {"end", "ref"}
     /\ last'.id \notin DOMAIN comments)
    => /\ collected_comments' = collected_comments
       /\ emitted_comment_ids' = emitted_comment_ids
       /\ last'.id \notin emitted_comment_ids'
       /\ last'.op = "end" =>
             /\ last'.id \notin DOMAIN active_comment_ranges'
             /\ \A id \in DOMAIN active_comment_ranges \ {last'.id} :
                   /\ id \in DOMAIN active_comment_ranges'
                   /\ active_comment_ranges'[id] = active_comment_ranges[id]

C10_UnknownIdDropped == [][C10_Step]_vars

\* C10 witness: a range-end closed the range of an unregistered id that had
\* accumulated text.
C10_Witness ==
    /\ last.op = "end"
    /\ last.flag
    /\ last.id \notin DOMAIN comments
    /\ startAt[last.id] < Len(stream)
    /\ last.id \notin DOMAIN active_comment_ranges

\* ------------------------------------------------------------------ C11
\* the style element read by the last step carries an outline level in 0..5
\* and a display name matching heading-N with N in 1..6
BothSignals(style) ==
    /\ style.styleId # ""
    /\ style.outline \in {<<<<"0">>>>, <<<<"1">>>>, <<<<"5">>>>}
    /\ style.name \in {<<<<"Heading", " ", "1">>>>, <<<<"heading", "2">>>>,
                       <<<<"biaoti", " ", "6">>>>, <<<<"Heading", " ", "3", " ", "Title">>>>}

NameLevelOf(style) ==
    CASE style.name = <<<<"Heading", " ", "1">>>> -> 1
      [] style.name = <<<<"heading", "2">>>> -> 2
      [] style.name = <<<<"biaoti", " ", "6">>>> -> 6
      [] style.name = <<<<"Heading", " ", "3", " ", "Title">>>> -> 3

C11_Levels == \A id \in DOMAIN styles : styles[id] \in 1..6

C11_Step ==
    (last'.op = "style" /\ BothSignals(last'.arg))
        => /\ last'.id \in DOMAIN styles'
           /\ styles'[last'.id] = NameLevelOf(last'.arg)

\* C11: every recorded heading level is in 1..6 (one per style id, the
\* table being a map), and a style element with an outline level in 0..5
\* and a heading-N name, N in 1..6, is recorded with level N.
C11_NameOverridesOutline == []C11_Levels /\ [][C11_Step]_vars

\* a style with outline level 1 and name "Heading 1" was read and the level
\* recorded is 1, not 2
C11_Witness ==
    /\ last.op = "style"
    /\ last.arg = Style("S1", <<<<"1">>>>, <<<<"Heading", " ", "1">>>>)
    /\ styles["S1"] = 1

\* ------------------------------------------------------------------ C12
\* the content of the paragraph that is being rendered, as
\* _render_paragraph_content returns it
ContentNow == IF stack = <<>> THEN <<>> ELSE RStripToks(FinishOut(Top).parts)

C12_Step ==
    (last'.op = "endp" /\ ContentNow = <<>> /\ collected_comments = <<>>)
        => /\ returned' = <<>>
           /\ output_lines' = output_lines

\* C12: a paragraph with empty content and an empty pending queue adds no
\* output line, whatever its style id and list id.
C12_EmptyParagraphSilent == [][C12_Step]_vars

\* a paragraph of a list that rendered only white space was skipped, after a
\* paragraph that did produce lines
C12_Witness ==
    /\ last.op = "endp"
    /\ last.id = "L1"
    /\ returned = <<>>
    /\ stream # <<>>
    /\ stream[Len(stream)] = <<" ">>
    /\ output_lines # <<>>

\* ------------------------------------------------------------------ C13
\* the file read by the step is a valid archive with a well-formed main part
MainPartGood(docx) == docx.zip /\ docx.document \in {"ok", "nobody"}

C13_Step ==
    (last'.op = "load" /\ MainPartGood(last'.arg))
        => /\ pc' # "error"
           /\ last'.arg.comments # "ok" => comments' = <<>>
           /\ last'.arg.numbering # "ok" => numbering' = EmptyNumbering
           /\ last'.arg.styles # "ok" => styles' = <<>>

\* C13: with a valid container and main part, a missing or malformed
\* comments, numbering or styles part does not abort the conversion and
\* leaves the corresponding registry or table empty.
C13_SecondaryPartsNonFatal == [][C13_Step]_vars

\* ------------------------------------------------------------------ C14
\* the second call has returned and it rendered the nodes the first call
\* rendered
SameInputTwice == pc = "done" /\ runs # <<>> /\ runs[1].nodes = nodes

\* C14: a second conversion starts from an empty context (no active range,
\* empty queue, empty emitted set, no list counter), and when it renders
\* the same nodes as the first its output is the output of the first.
C14_RepeatableOutput ==
    /\ (last.op = "linearize_docx" =>
            /\ active_comment_ranges = <<>>
            /\ collected_comments = <<>>
            /\ emitted_comment_ids = {}
            /\ list_counters = <<>>)
    /\ (SameInputTwice => returned = runs[1].out)

\* both conversions rendered a numbered paragraph and a comment block
C14_Witness ==
    /\ SameInputTwice
    /\ list_counters # <<>>
    /\ emitted_comment_ids # {}
    /\ Len(returned) >= 3

\* ------------------------------------------------------------------ C15
\* the index in nodes of the last node that opened a body element
ElementBegin ==
    LET S == {i \in 1..Len(nodes) : nodes[i] = (IF pc = "para" THEN <<"p">> ELSE <<"tbl">>)}
    IN IF S = {} THEN 0 ELSE CHOOSE i \in S : \A j \in S : j <= i

\* a range-end or a reference of the id lies in the body element being closed
AnchoredHere(cid) ==
    \E i \in (ElementBegin + 1)..Len(nodes) :
        nodes[i] \in {<<"commentRangeEnd", cid>>, <<"commentReference", cid>>}

C15_Step ==
    (\/ last'.op = "endp" /\ ContentNow # <<>>
     \/ last'.op = "endtbl" /\ last'.flag)
        => \A k \in 1..Len(collected_comments) :
               AnchoredHere(collected_comments[k].comment_id)

\* C15: when the content of a body element is added to the output, no
\* comment collected in an earlier element (a table cell included) is still
\* waiting: its block is already in the output, before that content.
C15_BlockBeforeLaterContent == [][C15_Step]_vars

\* ------------------------------------------------------------------ C16
\* the step rendered a non-empty text leaf (t, delText, tab, br)
LeafStep == last'.op \in {"text", "literal"} /\ last'.n > 0

C16_Step ==
    \A id \in DOMAIN active_comment_ranges \cap DOMAIN active_comment_ranges' :
        IF LeafStep
        THEN active_comment_ranges'[id]
                = Append(active_comment_ranges[id], stream'[Len(stream')])
        ELSE active_comment_ranges'[id] = active_comment_ranges[id]

C16_NoMarker ==
    \A id \in DOMAIN active_comment_ranges :
        \A p \in 1..Len(active_comment_ranges[id]) :
            \A k \in 1..Len(active_comment_ranges[id][p]) :
                active_comment_ranges[id][p][k] \notin MarkerStrs

\* C16: an open range receives each text leaf rendered while it is open
\* once, as the leaf's own text, and nothing else; no inline marker is in
\* the text it accumulates.
C16_VerbatimOnce == []C16_NoMarker /\ [][C16_Step]_vars

\* ------------------------------------------------------------------ C17
C17_Step ==
    (steps' = steps + 1 /\ last'.op = "ref") =>
        LET cid == last'.id
        IN /\ active_comment_ranges' = active_comment_ranges
           /\ IF cid \in emitted_comment_ids \/ cid \in DOMAIN active_comment_ranges
                 \/ cid \notin DOMAIN comments
              THEN /\ collected_comments' = collected_comments
                   /\ emitted_comment_ids' = emitted_comment_ids
              ELSE /\ Len(collected_comments') = Len(collected_comments) + 1
                   /\ SubSeq(collected_comments', 1, Len(collected_comments)) = collected_comments
                   /\ collected_comments'[Len(collected_comments')].comment_id = cid
                   /\ collected_comments'[Len(collected_comments')].original_text = <<>>
                   /\ emitted_comment_ids' = emitted_comment_ids \cup {cid}

\* C17: a comment-reference changes nothing when its id is already emitted
\* or its range is active; otherwise, the id being registered, it enqueues
\* one CollectedComment with empty original text and marks the id emitted.
\* It never changes the active ranges or their text.
C17_ReferenceOutcomes == [][C17_Step]_vars

\* a reference was ignored because the range of its id is active and holds
\* text, after a reference to another id was collected
C17_Witness ==
    /\ last.op = "ref"
    /\ last.id \in DOMAIN active_comment_ranges
    /\ active_comment_ranges[last.id] # <<>>
    /\ last.id \notin emitted_comment_ids
    /\ collected_comments # <<>>
    /\ collected_comments[1].original_text = <<>>

\* ------------------------------------------------------------------ C18
\* the step called get_list_marker, on its own or for a list paragraph
MarkerStep == steps' = steps + 1 /\ (last'.op = "marker" \/ (last'.op = "endp" /\ last'.flag))

OrderedFamilies == {"decimal", "upperLetter", "lowerLetter", "upperRoman", "lowerRoman"}

C18_Step ==
    MarkerStep =>
        LET level == GetLevel(numbering, last'.id, last'.n)
            key == <<last'.id, last'.n>>
        IN IF level # <<>> /\ level[1].num_fmt \in OrderedFamilies
           THEN /\ DOMAIN list_counters' = DOMAIN list_counters \cup {key}
                /\ \A k \in DOMAIN list_counters \ {key} : list_counters'[k] = list_counters[k]
                /\ list_counters'[key]
                      = (IF key \in DOMAIN list_counters THEN list_counters[key]
                         ELSE level[1].start) + 1
           ELSE list_counters' = list_counters

\* C18: get_list_marker changes no counter for a bullet level, for a level
\* of an unrecognised format and when no level resolves; for an ordered
\* level it changes the counter of its own (listId, depth) alone, to one
\* more than the count it rendered.
C18_CounterFrame == [][C18_Step]_vars

\* a call for a level of an unrecognised format, with two counters running
C18_Witness ==
    /\ last.op = "marker"
    /\ LastLevel # <<>>
    /\ LastLevel[1].num_fmt = "none"
    /\ Cardinality(DOMAIN list_counters) = 2

\* ------------------------------------------------------------------ C19
\* the paragraph closed by the step has a style that resolves to a heading
HeadingStyled(props) == props.style_id \in {"H2", "Title"}

C19_Step ==
    (steps' = steps + 1 /\ last'.op = "endp") =>
        LET props == last'.arg
        IN /\ (HeadingStyled(props) \/ ContentNow = <<>>) => list_counters' = list_counters
           /\ (HeadingStyled(props) /\ ContentNow # <<>>) =>
                 returned'[1].text
                    = Plain(IF props.style_id = "H2" THEN <<"#", "#", " ">> ELSE <<"#", " ">>)
                      \o ContentNow
           /\ ContentNow = <<>> =>
                 \A i \in 1..Len(returned') : returned'[i].t # "line"
           /\ list_counters' # list_counters =>
                 /\ props.num_id # ""
                 /\ last'.flag

\* C19: a paragraph with a heading style gets the heading prefix and no list
\* marker, a paragraph with empty content gets no line; neither changes a
\* list counter, even with the list id of an ordered format.  A counter
\* changes only when a paragraph received a list marker.
C19_OnlyListedAdvance == [][C19_Step]_vars

\* a heading paragraph with content carrying the list id of an ordered level
\* whose counter is already running
C19_Witness ==
    /\ last.op = "endp"
    /\ last.arg = ParagraphProps("H2", "L1", 0)
    /\ returned # <<>>
    /\ <<"L1", 0>> \in DOMAIN list_counters
    /\ list_counters[<<"L1", 0>>] = 2

\* ------------------------------------------------------------------ C20
C20_Step ==
    (/\ steps' = steps + 1
     /\ last'.op = "start"
     /\ last'.id \in DOMAIN active_comment_ranges)
        => UNCHANGED <<comments, numbering, styles, active_comment_ranges, collected_comments,
                       emitted_comment_ids, list_counters, stack, output_lines>>

\* C20: a range-start for an id whose range is active changes nothing of the
\* traversal context; the text accumulated for the id is kept.
C20_StartIdempotent == [][C20_Step]_vars

\* a second range-start for an id whose range already holds text
C20_Witness ==
    /\ last.op = "start"
    /\ last.flag
    /\ last.id \in DOMAIN active_comment_ranges
    /\ active_comment_ranges[last.id] # <<>>

\* ------------------------------------------------------------------ C21
\* s holds sub as a contiguous part
Contains(s, sub) ==
    \E k \in 0..(Len(s) - Len(sub)) : SubSeq(s, k + 1, k + Len(sub)) = sub

\* the id is waiting in the queue
Pending(id) == \E k \in 1..Len(collected_comments) : collected_comments[k].comment_id = id

\* C21: a comment that was enqueued (its id is in the emitted set) is either
\* still in the queue or has its block among the output lines; when the
\* conversion has returned the queue is empty and the text returned holds
\* the block's first line for every such id.
C21_NoCommentLost ==
    /\ \A id \in emitted_comment_ids : Pending(id) \/ BlocksOf(output_lines, id) # {}
    /\ pc = "done" =>
          /\ collected_comments = <<>>
          /\ \A id \in emitted_comment_ids :
                Contains(FinalText(output_lines), <<">", " ">> \o BlockHeader(id))

\* the conversion returned after two comments collected in a table cell were
\* flushed behind the table
C21_Witness ==
    /\ pc = "done"
    /\ last.op = "end-of-document"
    /\ last.flag
    /\ emitted_comment_ids = {"1", "2"}
    /\ \E k \in 1..Len(output_lines) : output_lines[k].t = "chunk"
    /\ \A id \in Ids : Cardinality(BlocksOf(output_lines, id)) = 1

\* ------------------------------------------------------------------ C22
C22_State ==
    /\ \A k \in 1..Len(collected_comments) :
          collected_comments[k].comment_id \in emitted_comment_ids
    /\ emitted_comment_ids \subseteq DOMAIN comments
    /\ \A j, k \in 1..Len(collected_comments) :
          collected_comments[j].comment_id = collected_comments[k].comment_id => j = k

C22_Grows == emitted_comment_ids \subseteq emitted_comment_ids'

\* C22: every id waiting in the queue is in the emitted set, the emitted set
\* holds registered ids only and never loses an id, and no id waits in the
\* queue twice.
C22_QueueAndEmittedSet == []C22_State /\ [][C22_Grows]_vars

\* two comments wait in the queue and a reference to the first of them was
\* ignored
C22_Witness ==
    /\ last.op = "ref"
    /\ Len(collected_comments) = 2
    /\ collected_comments[1].comment_id = last.id
    /\ emitted_comment_ids = {"1", "2"}

\* ------------------------------------------------------------------ C23
C23_Step ==
    \A key \in DOMAIN list_counters :
        /\ key \in DOMAIN list_counters'
        /\ list_counters'[key] >= list_counters[key]
        /\ key # <<last'.id, last'.n>> => list_counters'[key] = list_counters[key]

\* C23: no step of a traversal removes, resets or lowers a list counter; the
\* counter of a deeper level keeps its value when a shallower level of the
\* list or another list advances.
C23_CountersNeverReset == [][C23_Step]_vars

\* the second item of a nested ordered list, after the second item of its
\* parent, continues at 2
C23_Witness ==
    /\ last.op = "endp"
    /\ Len(output_lines) = 4
    /\ Str(output_lines[1].text) = <<"1", ".", " ", "a">>
    /\ Str(output_lines[2].text) = <<" ", " ", "1", ".", " ", "a">>
    /\ Str(output_lines[3].text) = <<"2", ".", " ", "a">>
    /\ Str(output_lines[4].text) = <<" ", " ", "2", ".", " ", "a">>
====
